---- MODULE Spec2Model ----
(***************************************************************************)
(* The health router of app/routers/health.py as a state machine.          *)
(*                                                                         *)
(* One asyncio event loop runs the requests.  Code between two awaits is    *)
(* one atomic step; at an await the coroutine is suspended until the        *)
(* awaited library call (asyncpg / aioredis) answers, raises, times out     *)
(* (where asyncio.wait_for wraps it) or the task is cancelled.  What the    *)
(* dependency does is the environment's choice.                             *)
(***************************************************************************)
EXTENDS Integers, Sequences, FiniteSets, TLC

(* Number of health / readiness requests the model lets arrive (they may    *)
(* overlap with each other and with liveness requests).                     *)
MaxReqs == 1

(* Number of liveness requests the model lets arrive. *)
MaxLive == 2

Reqs == 1..MaxReqs

(* The names perform_health_checks files results under, in the order it     *)
(* appends the tasks (database first, redis second).                        *)
Deps == {"database", "redis"}

(* Python's None for an Optional[str] setting. *)
PyNone == "None"

(* Values of settings.database_url / settings.redis_url: unset, the empty   *)
(* string, a connection string.                                             *)
UrlValues == {PyNone, "", "url"}

(* settings.health_check_timeout as f"{timeout}" prints it: the default      *)
(* (5.0) and the value the tests configure (1.0).                           *)
Timeouts == {"5.0", "1.0"}

(* Python truthiness of an Optional[str]: `if settings.database_url:` *)
Truthy(v) == v # PyNone /\ v # ""

-----------------------------------------------------------------------------
(* Python values that can end up in gather's results and in checks.         *)

(* ServiceCheck.error = None *)
NoError == <<>>

ServiceCheck(status, error) ==
    [type |-> "ServiceCheck", status |-> status, error |-> error]

(* An exception object; type is the class: "Exception" stands for any       *)
(* subclass of Exception other than TimeoutError, "CancelledError" derives  *)
(* from BaseException only.                                                 *)
Exc(type, msg) == [type |-> type, msg |-> msg]

TimeoutError == Exc("TimeoutError", "")

CancelledError == Exc("CancelledError", "")

(* Errors the library calls raise at each step. *)
ConnectErrors == {Exc("Exception", "Connection refused"),
                  Exc("Exception", "password authentication failed")}

VerifyErrors == {Exc("Exception", "verification failed")}

CloseErrors == {Exc("Exception", "close failed")}

(* An exception raised inside the try block by the code that reports the    *)
(* healthy result (log_health_check, ServiceCheck(...)).                    *)
ReportError == Exc("Exception", "report failed")

(* An exception raised by the code of an except clause (str(e),             *)
(* log_health_check, ServiceCheck(...)): it is raised outside the try block *)
HandlerError == Exc("Exception", "error while handling the failure")

(* isinstance(x, Exception) *)
IsInstanceException(x) == x.type \in {"Exception", "TimeoutError"}

(* hasattr(x, "status"): only a ServiceCheck has .status and .model_dump() *)
IsServiceCheck(x) == x.type = "ServiceCheck"

(* "Database" / "Redis" in the probes' messages *)
ProbeLabel(d) == IF d = "database" THEN "Database" ELSE "Redis"

(* f"Database connection timeout after {timeout}s" *)
TimeoutMessage(d, timeout) ==
    <<ProbeLabel(d), "connection timeout after", timeout, "s">>

(* f"Database connection failed: {str(e)}" *)
FailedMessage(d, e) == <<ProbeLabel(d), "connection failed:", e.msg>>

(* f"Unexpected error: {str(result)}" *)
UnexpectedMessage(e) == <<"Unexpected error:", e.msg>>

-----------------------------------------------------------------------------
(* The structured-logging sink (utils/logging.py, main.py).                 *)

(* log_health_check(service, status, duration_ms, error): a warning with    *)
(* the error message when error is truthy, an info event otherwise.         *)
LogHealthCheck(service, status, error) ==
    [level |-> IF error # NoError THEN "warning" ELSE "info",
     service_checked |-> service,
     check_status |-> status,
     error_message |-> error]

(* logger.info(f"Health check completed: {overall_status}", extra={...}) *)
LogSummary(overall, n) ==
    [level |-> "info", health_check_summary |-> TRUE,
     overall_status |-> overall, services_checked |-> n]

(* The two logger.info calls of readiness_check before it breaks. *)
LogNotReady(service, status) ==
    <<[level |-> "info", message |-> "Checked services", value |-> service],
      [level |-> "info", message |-> "Checks status", value |-> status]>>

(* http_exception_handler's warning and global_exception_handler's error *)
LogHttpException(code) ==
    [level |-> "warning", message |-> "HTTP exception occurred", status_code |-> code]

LogUnhandled(error_type) ==
    [level |-> "error", message |-> "Unhandled exception occurred",
     error_type |-> error_type]

-----------------------------------------------------------------------------
(* How a probe coroutine ends: it returns a value or an exception leaves it *)

NoOutcome == [how |-> "none", value |-> Exc("none", "")]

Returned(v) == [how |-> "returned", value |-> v]

Raised(e) == [how |-> "raised", value |-> e]

NoExc == Exc("none", "")

(* ProbeExcept without the `except Exception` clause *)
ProbeExcept_OnlyTimeout(d, timeout, e, report_ok) ==
    IF e.type = "TimeoutError" /\ report_ok
    THEN Returned(ServiceCheck("unhealthy", TimeoutMessage(d, timeout)))
    ELSE IF e.type = "TimeoutError" THEN Raised(HandlerError)
    ELSE Raised(e)

(* The except clauses of check_database / check_redis, for an exception e   *)
(* raised inside the try block.  report_ok says whether the clause's own    *)
(* code (str(e), log_health_check, ServiceCheck(...)) runs through; if it   *)
(* raises, that exception leaves the probe.  An exception that is not an    *)
(* instance of Exception matches neither clause and propagates.             *)
ProbeExcept(d, timeout, e, report_ok) ==
    IF e.type = "TimeoutError"
    THEN IF report_ok
         THEN Returned(ServiceCheck("unhealthy", TimeoutMessage(d, timeout)))
         ELSE Raised(HandlerError)
    ELSE IF IsInstanceException(e)
    THEN IF report_ok
         THEN Returned(ServiceCheck("unhealthy", FailedMessage(d, e)))
         ELSE Raised(HandlerError)
    ELSE Raised(e)

(* The events a probe that ends with `outcome` has handed to the sink. *)
ProbeLog(d, outcome) ==
    IF outcome.how = "returned"
    THEN <<LogHealthCheck(d, outcome.value.status, outcome.value.error)>>
    ELSE <<>>

-----------------------------------------------------------------------------
(* perform_health_checks                                                    *)

(* TaskNames with "is not None" in the place of the truthiness test *)
TaskNames_IsNotNone(settings) ==
    (IF settings.database_url # PyNone THEN <<"database">> ELSE <<>>)
    \o (IF settings.redis_url # PyNone THEN <<"redis">> ELSE <<>>)

(* The service names of the tasks list, in the order of the two appends:    *)
(* a probe is added when its setting is truthy.                             *)
TaskNames(settings) ==
    (IF Truthy(settings.database_url) THEN <<"database">> ELSE <<>>)
    \o (IF Truthy(settings.redis_url) THEN <<"redis">> ELSE <<>>)

(* asyncio.gather(..., return_exceptions=True): the result of a child that  *)
(* returned is its value, of a child that raised or was cancelled is the    *)
(* exception object.                                                        *)
GatherResult(outcome) == outcome.value

(* CheckEntry whose fallback leaves the error out *)
CheckEntry_NoError(result) ==
    IF IsInstanceException(result)
    THEN ServiceCheck("unhealthy", NoError)
    ELSE result

(* The body of the loop over the tasks: the entry stored for one result. *)
CheckEntry(result) ==
    IF IsInstanceException(result)
    THEN ServiceCheck("unhealthy", UnexpectedMessage(result))
    ELSE result

(* The checks dict after the loop: keyed by the task's service name, the    *)
(* i-th result under the i-th name.                                         *)
CollectChecks(names, results) ==
    [n \in {names[i] : i \in 1..Len(names)} |->
        CheckEntry(results[CHOOSE i \in 1..Len(names) : names[i] = n])]

-----------------------------------------------------------------------------
(* health_check, after perform_health_checks has returned                   *)

(* any(check.status == "unhealthy" for check in checks.values()), in the    *)
(* dict's order; an entry without .status raises AttributeError.            *)
RECURSIVE AnyUnhealthy(_, _)
AnyUnhealthy(names, checks) ==
    IF names = <<>> THEN "False"
    ELSE IF ~IsServiceCheck(checks[Head(names)]) THEN "AttributeError"
    ELSE IF checks[Head(names)].status = "unhealthy" THEN "True"
    ELSE AnyUnhealthy(Tail(names), checks)

(* overall_status as lines 189-193 compute it, or the error they raise *)
OverallStatus(names, checks) ==
    IF names = <<>> THEN "healthy"
    ELSE IF AnyUnhealthy(names, checks) = "True" THEN "unhealthy"
    ELSE IF AnyUnhealthy(names, checks) = "False" THEN "healthy"
    ELSE "AttributeError"

(* check.model_dump() *)
ModelDump(c) == [status |-> c.status, error |-> c.error]

(* {name: check.model_dump() for name, check in checks.items()} raises for  *)
(* an entry that is no ServiceCheck.                                        *)
CanDump(checks) == \A n \in DOMAIN checks : IsServiceCheck(checks[n])

DumpChecks(checks) == [n \in DOMAIN checks |-> ModelDump(checks[n])]

NoResponse == [code |-> 0, body |-> [none |-> TRUE]]

(* global_exception_handler's response *)
InternalServerError ==
    [code |-> 500,
     body |-> [detail |-> "Internal server error", type |-> "internal_server_error"]]

(* http_exception_handler's response to HTTPException(status_code, detail) *)
HttpExceptionResponse(code, detail) ==
    [code |-> code,
     body |-> [detail |-> detail, type |-> "http_exception", status_code |-> code]]

(* The HTTP status health_check answers with for an overall status *)
HealthStatusCode(overall) == IF overall = "unhealthy" THEN 503 ELSE 200

(* The response of GET /health/ for the checks perform_health_checks gave *)
HealthResponse(names, checks) ==
    LET overall == OverallStatus(names, checks)
        report  == [status |-> overall, checks |-> DumpChecks(checks)]
    IN  IF overall = "AttributeError" \/ ~CanDump(checks)
        THEN InternalServerError
        ELSE IF HealthStatusCode(overall) = 503
        THEN HttpExceptionResponse(503, report)
        ELSE [code |-> 200, body |-> report]

(* What health_check and the exception handlers hand to the sink *)
HealthLog(names, checks) ==
    LET overall == OverallStatus(names, checks)
    IN  IF overall = "AttributeError" \/ ~CanDump(checks)
        THEN <<LogUnhandled("AttributeError")>>
        ELSE <<LogSummary(overall, Len(names))>>
             \o (IF HealthStatusCode(overall) = 503
                 THEN <<LogHttpException(503)>> ELSE <<>>)

-----------------------------------------------------------------------------
(* readiness_check, after perform_health_checks has returned                *)

critical_services == {"database"}

(* The loop over checks.items() in the order `names`: "False" at the first  *)
(* critical entry that is unhealthy (break), "True" if there is none; the   *)
(* status of a non-critical entry is not read.                              *)
RECURSIVE IsReady(_, _)
IsReady(names, checks) ==
    IF names = <<>> THEN "True"
    ELSE IF Head(names) \in critical_services
    THEN IF ~IsServiceCheck(checks[Head(names)]) THEN "AttributeError"
         ELSE IF checks[Head(names)].status = "unhealthy" THEN "False"
         ELSE IsReady(Tail(names), checks)
    ELSE IsReady(Tail(names), checks)

(* The first critical unhealthy entry's name, which the loop logs *)
RECURSIVE FirstCriticalDown(_, _)
FirstCriticalDown(names, checks) ==
    IF Head(names) \in critical_services
       /\ checks[Head(names)].status = "unhealthy"
    THEN Head(names)
    ELSE FirstCriticalDown(Tail(names), checks)

(* status_code = 200 if is_ready else 503 *)
ReadyStatusCode(is_ready) == IF is_ready = "True" THEN 200 ELSE 503

(* The response of GET /health/ready *)
ReadyResponse(names, checks) ==
    LET is_ready == IsReady(names, checks)
    IN  IF is_ready = "AttributeError" \/ ~CanDump(checks)
        THEN InternalServerError
        ELSE [code |-> ReadyStatusCode(is_ready),
              body |-> [status |-> IF is_ready = "True" THEN "ready" ELSE "not_ready",
                        checks |-> DumpChecks(checks)]]

ReadyLog(names, checks) ==
    LET is_ready == IsReady(names, checks)
    IN  (IF is_ready = "False"
         THEN LogNotReady(FirstCriticalDown(names, checks), "unhealthy")
         ELSE <<>>)
        \o (IF is_ready = "AttributeError" \/ ~CanDump(checks)
            THEN <<LogUnhandled("AttributeError")>> ELSE <<>>)

(* LiveResponse of a liveness endpoint that reports itself unavailable *)
LiveResponse_Unavailable == [code |-> 503, body |-> [status |-> "alive"]]

(* liveness_check: {"status": "alive", "timestamp": ...} *)
LiveResponse == [code |-> 200, body |-> [status |-> "alive"]]

-----------------------------------------------------------------------------
(* routers/echo.py.  A str is the sequence of its characters; an            *)
(* Optional[str] is <<>> for None and <<s>> for the string s.               *)

MaxMsgLen == 2

MaxPrefixLen == 1

Chars == {"h", "I", " "}

RECURSIVE StrsUpTo(_)
StrsUpTo(n) ==
    IF n = 0 THEN {<<>>}
    ELSE LET shorter == StrsUpTo(n - 1)
         IN  shorter \cup {Append(t, c) : t \in shorter, c \in Chars}

(* msg / message: Query(..., min_length=1), Field(..., min_length=1) *)
Messages == StrsUpTo(MaxMsgLen) \ {<<>>}

NonePrefix == <<>>

SomePrefix(p) == <<p>>

(* prefix: Optional[str], default None *)
Prefixes == {NonePrefix} \cup {SomePrefix(p) : p \in StrsUpTo(MaxPrefixLen)}

(* str.upper(), character by character *)
UpperChar(c) == IF c = "h" THEN "H" ELSE c

Upper(str) == [i \in 1..Len(str) |-> UpperChar(str[i])]

(* `prefix is not None` *)
IsNotNone(prefix) == prefix # NonePrefix

(* `if request.prefix:`: neither None nor the empty string *)
TruthyPrefix(prefix) == prefix # NonePrefix /\ prefix[1] # <<>>

(* f"{request.prefix}: {processed_msg}" *)
WithPrefix(p, processed_msg) == p \o <<":", " ">> \o processed_msg

EchoResponse(echoed, msg, uppercase, prefix) ==
    [echo |-> echoed,
     metadata |-> [original_message |-> msg,
                   transformations_applied |->
                       [uppercase |-> uppercase,
                        prefix_added |-> IsNotNone(prefix)]]]

(* GET /echo/: the prefix is read for the metadata only *)
echo_query(msg, uppercase, prefix) ==
    LET processed_msg == IF uppercase THEN Upper(msg) ELSE msg
    IN  EchoResponse(processed_msg, msg, uppercase, prefix)

(* POST /echo/ *)
echo_post(message, uppercase, prefix) ==
    LET upper_msg     == IF uppercase THEN Upper(message) ELSE message
        processed_msg == IF TruthyPrefix(prefix)
                         THEN WithPrefix(prefix[1], upper_msg)
                         ELSE upper_msg
    IN  EchoResponse(processed_msg, message, uppercase, prefix)

NoEcho ==
    [endpoint |-> "none",
     request |-> [msg |-> <<>>, uppercase |-> FALSE, prefix |-> NonePrefix],
     response |-> EchoResponse(<<>>, <<>>, FALSE, NonePrefix)]

-----------------------------------------------------------------------------
(* State                                                                    *)

VARIABLES
    settings,   \* what get_settings() returns
    req,        \* per request: endpoint, position, perform_health_checks' data
    probe,      \* per request and dependency: the probe coroutine
    conn,       \* per request and dependency: the connection the probe opened
    log,        \* per request: the events its code handed to the logging sink
    live,       \* the liveness requests answered so far, and the last answer
    echo        \* the last request to GET or POST /echo/ and its response

vars == <<settings, req, probe, conn, log, live, echo>>

IdleReq ==
    [kind |-> "none", pc |-> "idle", names |-> <<>>, checks |-> <<>>,
     overall |-> "none", is_ready |-> "none", response |-> NoResponse]

(* A probe coroutine: where it is, how it ended, the exception raised in    *)
(* its try block, how many times its body was started, and its place in the *)
(* order in which this request's probes ended (0 while running).            *)
NoProbe ==
    [pc |-> "none", outcome |-> NoOutcome, exc |-> NoExc, runs |-> 0, seq |-> 0]

Init ==
    /\ settings \in [database_url : UrlValues, redis_url : UrlValues,
                     health_check_timeout : Timeouts]
    /\ req = [r \in Reqs |-> IdleReq]
    /\ probe = [r \in Reqs |-> [d \in Deps |-> NoProbe]]
    /\ conn = [r \in Reqs |-> [d \in Deps |-> "none"]]
    /\ log = [r \in Reqs |-> <<>>]
    /\ live = [count |-> 0, response |-> NoResponse]
    /\ echo = NoEcho

(* Requests are numbered in the order they arrive. *)
CanArrive(r) ==
    /\ req[r].pc = "idle"
    /\ IF r = 1 THEN TRUE ELSE req[r - 1].pc # "idle"

(* The names as a set *)
Range(names) == {names[i] : i \in 1..Len(names)}

-----------------------------------------------------------------------------
(* The endpoints' code from the return of perform_health_checks to the      *)
(* response: no await in between, so it is one step.                        *)

Respond(r, kind, names, checks) ==
    /\ req' = [req EXCEPT ![r] =
                 [kind |-> kind, pc |-> "done", names |-> names, checks |-> checks,
                  overall |-> IF kind = "health" THEN OverallStatus(names, checks)
                              ELSE "none",
                  is_ready |-> IF kind = "ready" THEN IsReady(names, checks)
                               ELSE "none",
                  response |-> IF kind = "health" THEN HealthResponse(names, checks)
                               ELSE ReadyResponse(names, checks)]]
    /\ log' = [log EXCEPT ![r] =
                 @ \o (IF kind = "health" THEN HealthLog(names, checks)
                       ELSE ReadyLog(names, checks))]

(* perform_health_checks up to `await asyncio.gather(...)`: the coroutines  *)
(* of the configured probes are created; with no task it returns {} at once *)
StartChecks(r, kind) ==
    LET names == TaskNames(settings)
    IN  IF names = <<>>
        THEN /\ Respond(r, kind, names, CollectChecks(names, <<>>))
             /\ UNCHANGED <<echo, settings, probe, conn, live>>
        ELSE /\ req' = [req EXCEPT ![r] =
                          [IdleReq EXCEPT !.kind = kind, !.pc = "gather",
                                          !.names = names]]
             /\ probe' = [probe EXCEPT ![r] =
                            [d \in Deps |->
                               IF d \in Range(names)
                               THEN [NoProbe EXCEPT !.pc = "created"]
                               ELSE NoProbe]]
             /\ UNCHANGED <<echo, settings, conn, log, live>>

(* GET /health/ *)
HealthRequest(r) ==
    /\ CanArrive(r)
    /\ StartChecks(r, "health")

(* GET /health/ready *)
ReadyRequest(r) ==
    /\ CanArrive(r)
    /\ StartChecks(r, "ready")

(* GET /health/live: liveness_check has no await and touches nothing but   *)
(* its own response.                                                        *)
LiveRequest ==
    /\ live.count < MaxLive
    /\ live' = [count |-> live.count + 1, response |-> LiveResponse]
    /\ UNCHANGED <<echo, settings, req, probe, conn, log>>

(* GatherResults that serves every request the results of the first one *)
GatherResults_Cached(r, names) ==
    [i \in 1..Len(names) |-> GatherResult(probe[1][names[i]].outcome)]

(* GatherResults in the order in which the children ended *)
GatherResults_AsCompleted(r, names) ==
    [i \in 1..Len(names) |->
        GatherResult(probe[r][CHOOSE x \in Range(names) :
                                 probe[r][x].seq = i].outcome)]

(* What the awaited gather call (return_exceptions=True) evaluates to       *)
(* in request r: the results of this call's own children, in the order of   *)
(* the tasks list (not in the order in which they ended).                   *)
GatherResults(r, names) ==
    [i \in 1..Len(names) |-> GatherResult(probe[r][names[i]].outcome)]

(* GatherDone that resumes as soon as one child is done *)
GatherDone_FirstCompleted(r) ==
    /\ req[r].pc = "gather"
    /\ \E d \in Range(req[r].names) : probe[r][d].pc = "done"
    /\ LET names == req[r].names
       IN  Respond(r, req[r].kind, names,
                   CollectChecks(names, GatherResults(r, names)))
    /\ UNCHANGED <<echo, settings, probe, conn, live>>

(* gather's future is done once every child is; perform_health_checks then  *)
(* builds checks and the endpoint answers.                                  *)
GatherDone(r) ==
    /\ req[r].pc = "gather"
    /\ \A d \in Range(req[r].names) : probe[r][d].pc = "done"
    /\ LET names == req[r].names
       IN  Respond(r, req[r].kind, names,
                   CollectChecks(names, GatherResults(r, names)))
    /\ UNCHANGED <<echo, settings, probe, conn, live>>

-----------------------------------------------------------------------------
(* check_database / check_redis, one step per stretch between two awaits    *)

(* The probe is suspended at one of its awaits *)
Awaiting(r, d) == probe[r][d].pc \in {"connect", "verify", "close"}

(* The probe coroutine ends: with exception e raised inside the try block  *)
(* (NoExc if none), ending as `out`, its connection left as c.              *)
Finish(r, d, e, out, c) ==
    /\ probe' = [probe EXCEPT ![r][d] =
                   [pc |-> "done", outcome |-> out, exc |-> e,
                    runs |-> probe[r][d].runs,
                    seq |-> 1 + Cardinality({x \in Deps :
                                               probe[r][x].pc = "done"})]]
    /\ conn' = [conn EXCEPT ![r][d] = c]
    /\ log' = [log EXCEPT ![r] = @ \o ProbeLog(d, out)]
    /\ UNCHANGED <<echo, settings, req, live>>

(* ProbeStart of an aggregator that awaits its probes one after the other *)
ProbeStart_Sequential(r, d) ==
    /\ probe[r][d].pc = "created"
    /\ d = "redis" => probe[r]["database"].pc \in {"none", "done"}
    /\ probe' = [probe EXCEPT ![r][d].pc = "connect",
                              ![r][d].runs = @ + 1]
    /\ UNCHANGED <<echo, settings, req, conn, log, live>>

(* The task starts: start_time is taken and the probe awaits               *)
(* asyncio.wait_for(connect(url), timeout=timeout).                         *)
ProbeStart(r, d) ==
    /\ probe[r][d].pc = "created"
    /\ probe' = [probe EXCEPT ![r][d].pc = "connect",
                              ![r][d].runs = @ + 1]
    /\ UNCHANGED <<echo, settings, req, conn, log, live>>

(* The connection is established; the probe awaits execute("SELECT 1") /    *)
(* ping(), which no wait_for wraps.                                          *)
ConnectOk(r, d) ==
    /\ probe[r][d].pc = "connect"
    /\ probe' = [probe EXCEPT ![r][d].pc = "verify"]
    /\ conn' = [conn EXCEPT ![r][d] = "open"]
    /\ UNCHANGED <<echo, settings, req, log, live>>

(* connect raises (refused, authentication) *)
ConnectFails(r, d) ==
    /\ probe[r][d].pc = "connect"
    /\ \E e \in ConnectErrors, report_ok \in BOOLEAN :
         Finish(r, d, e,
                ProbeExcept(d, settings.health_check_timeout, e, report_ok),
                conn[r][d])

(* wait_for's timer fires before connect has answered: it cancels connect   *)
(* and raises asyncio.TimeoutError.                                         *)
ConnectTimeout(r, d) ==
    /\ probe[r][d].pc = "connect"
    /\ \E report_ok \in BOOLEAN :
         Finish(r, d, TimeoutError,
                ProbeExcept(d, settings.health_check_timeout, TimeoutError, report_ok),
                conn[r][d])

(* The verification answers; the probe awaits close() *)
VerifyOk(r, d) ==
    /\ probe[r][d].pc = "verify"
    /\ probe' = [probe EXCEPT ![r][d].pc = "close"]
    /\ UNCHANGED <<echo, settings, req, conn, log, live>>

(* The verification raises: control leaves the try block before close() *)
VerifyFails(r, d) ==
    /\ probe[r][d].pc = "verify"
    /\ \E e \in VerifyErrors, report_ok \in BOOLEAN :
         Finish(r, d, e,
                ProbeExcept(d, settings.health_check_timeout, e, report_ok),
                conn[r][d])

(* close() returns; the probe logs and returns the healthy result.  If the  *)
(* reporting code raises, the exception is raised inside the try block.     *)
CloseOk(r, d) ==
    /\ probe[r][d].pc = "close"
    /\ \/ Finish(r, d, NoExc,
                 Returned(ServiceCheck("healthy", NoError)), "closed")
       \/ \E report_ok \in BOOLEAN :
            Finish(r, d, ReportError,
                   ProbeExcept(d, settings.health_check_timeout, ReportError,
                               report_ok),
                   "closed")

(* close() raises; whether the connection went down with it is the          *)
(* library's business.                                                      *)
CloseFails(r, d) ==
    /\ probe[r][d].pc = "close"
    /\ \E e \in CloseErrors, report_ok \in BOOLEAN, c \in {"open", "closed"} :
         Finish(r, d, e,
                ProbeExcept(d, settings.health_check_timeout, e, report_ok), c)

(* CancelledError is raised at the await the probe is suspended at (its     *)
(* task is cancelled, or the library cancels the pending operation).        *)
ProbeCancelled(r, d) ==
    /\ Awaiting(r, d)
    /\ Finish(r, d, CancelledError,
              ProbeExcept(d, settings.health_check_timeout, CancelledError, TRUE),
              conn[r][d])

-----------------------------------------------------------------------------

Next ==
    \/ LiveRequest
    \/ \E r \in Reqs :
          \/ HealthRequest(r)
          \/ ReadyRequest(r)
          \/ GatherDone(r)
          \/ \E d \in Deps :
                \/ ProbeStart(r, d)
                \/ ProbeCancelled(r, d)
                \/ ConnectOk(r, d)
                \/ ConnectFails(r, d)
                \/ ConnectTimeout(r, d)
                \/ VerifyOk(r, d)
                \/ VerifyFails(r, d)
                \/ CloseOk(r, d)
                \/ CloseFails(r, d)

Spec == Init /\ [][Next]_vars

(* Overlapping requests: several health and readiness requests in flight   *)
(* on the one event loop, each with the probes of its own                   *)
(* perform_health_checks call, in the deployments with at most one          *)
(* dependency configured.                                                   *)
MaxOverlap == 2

OverlapReqs == 1..MaxOverlap

OverlapInit ==
    /\ settings \in [database_url : {PyNone, "url"}, redis_url : {PyNone, "url"},
                     health_check_timeout : {"5.0"}]
    /\ settings.database_url = PyNone \/ settings.redis_url = PyNone
    /\ req = [r \in OverlapReqs |-> IdleReq]
    /\ probe = [r \in OverlapReqs |-> [d \in Deps |-> NoProbe]]
    /\ conn = [r \in OverlapReqs |-> [d \in Deps |-> "none"]]
    /\ log = [r \in OverlapReqs |-> <<>>]
    /\ live = [count |-> 0, response |-> NoResponse]
    /\ echo = NoEcho

OverlapNext ==
    \E r \in OverlapReqs :
        \/ HealthRequest(r)
        \/ ReadyRequest(r)
        \/ GatherDone(r)
        \/ \E d \in Deps :
              \/ ProbeStart(r, d)
              \/ ProbeCancelled(r, d)
              \/ ConnectOk(r, d)
              \/ ConnectFails(r, d)
              \/ ConnectTimeout(r, d)
              \/ VerifyOk(r, d)
              \/ VerifyFails(r, d)
              \/ CloseOk(r, d)
              \/ CloseFails(r, d)

OverlapSpec == OverlapInit /\ [][OverlapNext]_vars

(* The echo router on its own: requests to GET /echo/ and POST /echo/ with  *)
(* every input of the bounded sets.                                         *)
EchoQuery ==
    \E msg \in Messages, uppercase \in BOOLEAN, prefix \in Prefixes :
        /\ echo' = [endpoint |-> "GET",
                    request |-> [msg |-> msg, uppercase |-> uppercase,
                                 prefix |-> prefix],
                    response |-> echo_query(msg, uppercase, prefix)]
        /\ UNCHANGED <<settings, req, probe, conn, log, live>>

EchoPost ==
    \E msg \in Messages, uppercase \in BOOLEAN, prefix \in Prefixes :
        /\ echo' = [endpoint |-> "POST",
                    request |-> [msg |-> msg, uppercase |-> uppercase,
                                 prefix |-> prefix],
                    response |-> echo_post(msg, uppercase, prefix)]
        /\ UNCHANGED <<settings, req, probe, conn, log, live>>

EchoNext == EchoQuery \/ EchoPost

EchoSpec == Init /\ [][EchoNext]_vars

(* What the event loop guarantees: a created task is started, an armed      *)
(* wait_for timer fires unless the awaited call ends first, the coroutine   *)
(* waiting on gather is resumed once all its children are done.  Whether    *)
(* and when a dependency answers is not guaranteed.                         *)
Fairness ==
    \A r \in Reqs :
        /\ WF_vars(GatherDone(r))
        /\ \A d \in Deps : WF_vars(ProbeStart(r, d)) /\ WF_vars(ConnectTimeout(r, d))

FairSpec == Spec /\ Fairness

-----------------------------------------------------------------------------
(* Shorthands for the claims                                                *)

Done(r) == req[r].pc = "done"

(* The dependency's setting holds a connection descriptor *)
IsSet(d) ==
    IF d = "database"
    THEN settings.database_url \notin {PyNone, ""}
    ELSE settings.redis_url \notin {PyNone, ""}

Unhealthy(c) == IsServiceCheck(c) /\ c.status = "unhealthy"

(* The result's error field is set (not None) *)
HasError(c) == IsServiceCheck(c) /\ c.error # NoError

ProbeDone(r, d) == probe[r][d].pc = "done"

-----------------------------------------------------------------------------
(* C1: the mapping perform_health_checks returns has an entry for each      *)
(* dependency whose url is set and for no other name, whatever the probes   *)
(* did.                                                                     *)
C1_OneEntryPerConfigured ==
    \A r \in Reqs :
        Done(r) => DOMAIN req[r].checks = {d \in Deps : IsSet(d)}

(* Both dependencies are configured, one probe failed, one ended raising,   *)
(* and the mapping was returned.                                            *)
C1_Witness ==
    \E r \in Reqs :
        /\ Done(r)
        /\ IsSet("database") /\ IsSet("redis")
        /\ probe[r]["database"].outcome.how = "raised"
        /\ Unhealthy(probe[r]["redis"].outcome.value)

C3_NoConnectionLeak ==
    \A r \in Reqs, d \in Deps :
        (ProbeDone(r, d) /\ probe[r][d].outcome.how = "returned")
            => conn[r][d] # "open"

(* C4: every request that waits on its probes gets its mapping and answers, *)
(* and a probe that is waiting on its dependency ends.                      *)
C4_ProbesTerminate ==
    \A r \in Reqs :
        /\ (req[r].pc = "gather") ~> Done(r)
        /\ \A d \in Deps : Awaiting(r, d) ~> ProbeDone(r, d)

(* C5: when a probe ended by raising, the request still got its mapping,    *)
(* the mapping's entry for that dependency is an unhealthy result whose     *)
(* error is the "Unexpected error" message, and the entry of a probe that   *)
(* returned is the very result it returned.                                 *)
C5_RaisingProbeIsReportedUnhealthy ==
    \A r \in Reqs :
        Done(r) =>
            \A d \in DOMAIN req[r].checks :
                /\ probe[r][d].outcome.how = "raised" =>
                     /\ Unhealthy(req[r].checks[d])
                     /\ req[r].checks[d].error =
                            <<"Unexpected error:", probe[r][d].outcome.value.msg>>
                /\ probe[r][d].outcome.how = "returned" =>
                     req[r].checks[d] = probe[r][d].outcome.value

(* C6: every result in the returned mapping, a probe's or the aggregator's  *)
(* fallback, has an error exactly when its status is unhealthy.             *)
C6_ErrorIffUnhealthy ==
    \A r \in Reqs :
        Done(r) =>
            \A d \in DOMAIN req[r].checks :
                /\ HasError(req[r].checks[d]) <=> Unhealthy(req[r].checks[d])
                /\ IsServiceCheck(req[r].checks[d]) =>
                       req[r].checks[d].status \in {"healthy", "unhealthy"}

(* The mapping holds a healthy result next to the fallback result of a      *)
(* probe that raised.                                                       *)
C6_Witness ==
    \E r \in Reqs :
        /\ Done(r)
        /\ DOMAIN req[r].checks = Deps
        /\ \E d \in Deps :
              /\ probe[r][d].outcome = Raised(HandlerError)
              /\ Unhealthy(req[r].checks[d])
        /\ \E d \in Deps :
              /\ IsServiceCheck(req[r].checks[d])
              /\ req[r].checks[d].status = "healthy"

(* C7: the overall status health_check computes is unhealthy exactly when   *)
(* the mapping has an unhealthy entry, and healthy otherwise (so healthy    *)
(* for the empty mapping and when all entries are healthy).                 *)
C7_OverallUnhealthyIffAnyUnhealthy ==
    \A r \in Reqs :
        (Done(r) /\ req[r].kind = "health") =>
            LET any == \E d \in DOMAIN req[r].checks :
                           Unhealthy(req[r].checks[d])
            IN  req[r].overall = IF any THEN "unhealthy" ELSE "healthy"

(* One healthy and one unhealthy entry: the overall status is unhealthy. *)
C7_Witness ==
    \E r \in Reqs :
        /\ Done(r) /\ req[r].kind = "health"
        /\ req[r].overall = "unhealthy"
        /\ \E d, e \in DOMAIN req[r].checks :
              /\ Unhealthy(req[r].checks[d])
              /\ IsServiceCheck(req[r].checks[e])
              /\ req[r].checks[e].status = "healthy"

(* C8: the readiness endpoint answers 503 not_ready when the mapping has    *)
(* "database" unhealthy, and 200 ready in every other case.                 *)
C8_ReadinessFollowsDatabase ==
    \A r \in Reqs :
        (Done(r) /\ req[r].kind = "ready") =>
            IF "database" \in DOMAIN req[r].checks
               /\ Unhealthy(req[r].checks["database"])
            THEN /\ req[r].response.code = 503
                 /\ req[r].response.body.status = "not_ready"
            ELSE /\ req[r].response.code = 200
                 /\ req[r].response.body.status = "ready"

(* The report of a health request: its overall status and every entry *)
Report(r) ==
    [status |-> req[r].overall,
     checks |-> [d \in DOMAIN req[r].checks |->
                   [status |-> req[r].checks[d].status,
                    error |-> req[r].checks[d].error]]]

(* C9: the health endpoint answers 200 exactly when the overall status is   *)
(* healthy, 503 exactly when it is unhealthy, and both answers carry the    *)
(* report.                                                                  *)
C9_StatusCodeFollowsOverall ==
    \A r \in Reqs :
        (Done(r) /\ req[r].kind = "health") =>
            /\ (req[r].response.code = 200) <=> (req[r].overall = "healthy")
            /\ (req[r].response.code = 503) <=> (req[r].overall = "unhealthy")
            /\ req[r].response.code = 200 => req[r].response.body = Report(r)
            /\ req[r].response.code = 503 =>
                   req[r].response.body.detail = Report(r)

(* C10: however the probes ended, the health and readiness endpoints answer *)
(* 200 or 503, never the generic internal-server-error response.            *)
C10_NeverInternalServerError ==
    \A r \in Reqs :
        Done(r) => req[r].response.code \in {200, 503}

(* C11: every liveness request is answered 200 alive, answering it starts   *)
(* no probe and touches no request, probe or connection, and the endpoint   *)
(* can answer in every state of the health and readiness requests and of    *)
(* their probes.                                                            *)
C11_LivenessAlwaysAlive ==
    /\ [](live.count > 0 =>
            live.response = [code |-> 200, body |-> [status |-> "alive"]])
    /\ [][live' # live => UNCHANGED <<echo, settings, req, probe, conn, log>>]_vars
    /\ [](live.count < MaxLive => ENABLED LiveRequest)

(* Liveness has answered while a readiness request waits on a probe that    *)
(* hangs in its verification and another probe of it has failed.            *)
C11_Witness ==
    /\ live.count > 0
    /\ live.response.code = 200
    /\ \E r \in Reqs :
          /\ req[r].pc = "gather"
          /\ probe[r]["database"].pc = "verify"
          /\ probe[r]["redis"].pc = "done"
          /\ Unhealthy(probe[r]["redis"].outcome.value)

(* C12: a request has a mapping or a response only when every probe it     *)
(* launched has finished, and the mapping then has an entry for each of     *)
(* them; until then it has neither.                                         *)
C12_NoPartialResults ==
    \A r \in Reqs :
        /\ (Done(r) \/ req[r].response # NoResponse \/ req[r].checks # <<>>) =>
              \A d \in Deps :
                  /\ probe[r][d].pc \in {"none", "done"}
                  /\ probe[r][d].pc = "done" => d \in DOMAIN req[r].checks
        /\ (\E d \in Deps : probe[r][d].pc \notin {"none", "done"}) =>
              /\ req[r].pc = "gather"
              /\ req[r].response = NoResponse

(* The request has answered after both of its probes ran to their end, one  *)
(* of them through all three awaits.                                        *)
C12_Witness ==
    \E r \in Reqs :
        /\ Done(r)
        /\ DOMAIN req[r].checks = Deps
        /\ probe[r]["database"].outcome = Returned(ServiceCheck("healthy", NoError))
        /\ probe[r]["redis"].exc = TimeoutError
        /\ probe[r]["redis"].seq = 1

(* C13: while the aggregator waits, every configured probe exists as a     *)
(* task, and a probe that has not finished can take its next step whatever  *)
(* the other probe is doing: it can start while the other is pending, and   *)
(* its dependency's answer ends its wait while the other still waits.       *)
C13_ProbesRunConcurrently ==
    \A r \in Reqs :
        req[r].pc = "gather" =>
            \A d \in Range(req[r].names) :
                /\ probe[r][d].pc # "none"
                /\ probe[r][d].pc = "created" => ENABLED ProbeStart(r, d)
                /\ probe[r][d].pc = "connect" =>
                       ENABLED ConnectOk(r, d) /\ ENABLED ConnectTimeout(r, d)
                /\ probe[r][d].pc = "verify" => ENABLED VerifyOk(r, d)
                /\ probe[r][d].pc = "close" => ENABLED CloseOk(r, d)

(* The redis probe has started and finished while the database probe has    *)
(* not yet got its connection.                                              *)
C13_Witness ==
    \E r \in Reqs :
        /\ req[r].pc = "gather"
        /\ probe[r]["redis"].pc = "done"
        /\ probe[r]["redis"].outcome = Returned(ServiceCheck("healthy", NoError))
        /\ probe[r]["database"].pc \in {"created", "connect"}

(* C14: in every request, overlapping others or not, no probe body is      *)
(* started a second time; when the request has its report each configured   *)
(* probe has run exactly once and no other has run, and every entry of the  *)
(* report is what gather gave for one of this request's own probes.         *)
C14_FreshProbesPerRequest ==
    \A r \in DOMAIN req :
        /\ \A d \in Deps : probe[r][d].runs <= 1
        /\ Done(r) =>
              /\ \A d \in Deps :
                     probe[r][d].runs = IF d \in Range(req[r].names) THEN 1 ELSE 0
              /\ \A d \in DOMAIN req[r].checks :
                     req[r].checks[d] \in
                        {CheckEntry(GatherResult(probe[r][x].outcome)) :
                            x \in Range(req[r].names)}

(* Two requests overlap: the later one has reported a healthy database      *)
(* while the earlier one, whose own probe has failed, still waits on        *)
(* gather.                                                                  *)
C14_Witness ==
    /\ DOMAIN req = OverlapReqs
    /\ req[1].pc = "gather"
    /\ probe[1]["database"].pc = "done"
    /\ Unhealthy(probe[1]["database"].outcome.value)
    /\ Done(2)
    /\ "database" \in DOMAIN req[2].checks
    /\ req[2].checks["database"] = ServiceCheck("healthy", NoError)

(* The echo the description gives for a request: the message, uppercased   *)
(* on demand, behind "<prefix>: " when a prefix is given.                   *)
ExpectedEcho(request) ==
    LET body == IF request.uppercase THEN Upper(request.msg) ELSE request.msg
    IN  IF request.prefix = NonePrefix THEN body
        ELSE WithPrefix(request.prefix[1], body)

(* C15: for GET and POST /echo/, a request without prefix is answered with  *)
(* the message, uppercased when uppercase is set, and a request with a      *)
(* non-empty prefix with "<prefix>: " followed by that, the prefix as given. *)
C15_EchoIsPrefixedMessage ==
    (echo.endpoint # "none" /\ echo.request.prefix # SomePrefix(<<>>)) =>
        echo.response.echo = ExpectedEcho(echo.request)

(* C19: prefix_added is true exactly when the echo is "<prefix>: " followed *)
(* by the (uppercased) message, and original_message is the input message.  *)
C19_PrefixAddedIffPrefixed ==
    echo.endpoint # "none" =>
        /\ echo.response.metadata.original_message = echo.request.msg
        /\ echo.response.metadata.transformations_applied.prefix_added
              <=> (/\ echo.request.prefix # NonePrefix
                   /\ echo.response.echo = ExpectedEcho(echo.request))

(* The fixed text of an error message, without the dependency's label and  *)
(* the exception's own text: what tells the kinds of failure apart.         *)
MessageCategory(error) == IF Len(error) = 2 THEN error[1] ELSE error[2]

(* C16: in the unhealthy result a probe returns, the message of a failed    *)
(* connection is the connection-failure message, the message of a failed    *)
(* verification is not, and the timeout message is given exactly for a      *)
(* timeout.                                                                 *)
C16_MessageTellsTheKind ==
    \A r \in Reqs, d \in Deps :
        (ProbeDone(r, d) /\ probe[r][d].outcome.how = "returned"
                         /\ Unhealthy(probe[r][d].outcome.value)) =>
            LET category == MessageCategory(probe[r][d].outcome.value.error)
                exc      == probe[r][d].exc
            IN  /\ exc \in ConnectErrors => category = "connection failed:"
                /\ exc \in VerifyErrors => category # "connection failed:"
                /\ category = "connection timeout after" <=> exc = TimeoutError

(* The positions in request r's log of the event e *)
EventsAt(r, e) == {i \in 1..Len(log[r]) : log[r][i] = e}

(* C17: when a health request has its report, its log holds exactly one     *)
(* probe-outcome event for each entry of the mapping, with the entry's      *)
(* name, status and error, exactly one summary event with the overall       *)
(* status, and the probe events come before the summary.                    *)
C17_EveryEntryIsLogged ==
    \A r \in Reqs :
        (Done(r) /\ req[r].kind = "health") =>
            LET summary == EventsAt(r, LogSummary(req[r].overall,
                                                  Len(req[r].names)))
            IN  /\ Cardinality(summary) = 1
                /\ \A d \in DOMAIN req[r].checks :
                      IF IsServiceCheck(req[r].checks[d])
                      THEN LET events ==
                                   EventsAt(r, LogHealthCheck(d,
                                                   req[r].checks[d].status,
                                                   req[r].checks[d].error))
                           IN  /\ Cardinality(events) = 1
                               /\ \A i \in events, j \in summary : i < j
                      ELSE FALSE

(* C18: whichever probe ended first, the entry under a dependency's name   *)
(* is what gather gave for that dependency's own probe (the probe's result, *)
(* or the fallback built from its exception), and a message a probe wrote   *)
(* is filed under the dependency it names.                                  *)
C18_FiledUnderOwnName ==
    \A r \in Reqs :
        Done(r) =>
            \A d \in DOMAIN req[r].checks :
                /\ req[r].checks[d] = CheckEntry(GatherResult(probe[r][d].outcome))
                /\ (HasError(req[r].checks[d]) /\ Len(req[r].checks[d].error) > 2)
                      => req[r].checks[d].error[1] = ProbeLabel(d)

(* The redis probe ended first and failed, the database probe ended second  *)
(* and healthy, and the report has each under its own name.                 *)
C18_Witness ==
    \E r \in Reqs :
        /\ Done(r)
        /\ DOMAIN req[r].checks = Deps
        /\ probe[r]["redis"].seq = 1 /\ probe[r]["database"].seq = 2
        /\ req[r].checks["database"] = ServiceCheck("healthy", NoError)
        /\ Unhealthy(req[r].checks["redis"])

====
